---- MODULE Spec2Model ----
(***************************************************************************)
(* State-machine model of the multi-trade rack configurator.               *)
(*                                                                         *)
(*   src/setupGUI.js       the lil-gui panel: sliders, clamp pass, rebuild *)
(*   src/nav.js            unit helpers, buildRack, buildDuct, pipes       *)
(*   src/unnamed/part_003  the controllerMap-based panel                   *)
(*   src/unnamed/part_000  the chat handler that patches the parameters    *)
(*                                                                         *)
(* Number representation.  Lengths the program keeps in feet are integers  *)
(* of feet.  Lengths it keeps in inches are integers of half inches        *)
(* ("ticks"), so that depth/2 - postSize/2 - width/2 is exact for whole    *)
(* inch sizes.  Lengths in metres are integers of half ticks (1/4 in),     *)
(* so that beamM/2 and in2m(diam)/2 are exact.                             *)
(***************************************************************************)
EXTENDS Integers, Sequences, FiniteSets, TLC

VARIABLES
    p,        \* the parameter aggregate (params of main.js, p of setupGUI)
    ctrl,     \* ranges of the lil-gui controllers that the code re-ranges
    scene,    \* what the last completed rebuildScene put into the scene
    lastOp,   \* what the handler that ran last did: clamp pass, resize, rebuild
    chat      \* chat requests whose network response is still awaited

vars == <<p, ctrl, scene, lastOp, chat>>

(***************************************************************************)
(* Bounds of the model                                                     *)
(***************************************************************************)
MaxTiers == 4      \* the tierCount slider admits 1..10; the model 1..MaxTiers
MaxPipes == 2      \* the Count box is unbounded; the model adds up to MaxPipes
MaxInflight == 2   \* chat requests awaiting their response at one time
MaxEditTier == 1   \* the tier folders 1..MaxEditTier are the ones operated
MaxEditPipe == 1   \* of a tier's pipe folders, 1..MaxEditPipe are operated
MaxAge == 2        \* rebuilds an object in the scene is counted through

(***************************************************************************)
(* Arithmetic helpers                                                      *)
(***************************************************************************)
Min(a, b) == IF a <= b THEN a ELSE b
Max(a, b) == IF a >= b THEN a ELSE b
Abs(a) == IF a < 0 THEN -a ELSE a

\* n inches, in ticks
In(n) == 2 * n

\* THREE.MathUtils.clamp(value, min, max) = Math.max(min, Math.min(max, value))
clamp(value, lo, hi) == Max(lo, Min(hi, value))

\* lil-gui NumberController._clamp: what a slider or number field stores for a
\* raw pointer/keyboard value when the controller has the range [lo, hi]
guiClamp(value, lo, hi) ==
    LET a == IF value < lo THEN lo ELSE value
    IN  IF a > hi THEN hi ELSE a

\* the values a controller with range [lo, hi] can deliver for the raw inputs
Slider(raw, lo, hi) == { guiClamp(v, lo, hi) : v \in raw }

(***************************************************************************)
(* Unit helpers (nav.js)                                                   *)
(***************************************************************************)
FT2M == 48         \* metre units (1/4 in) per foot
IN2M == 2          \* metre units per tick, so that FT2M = 12 inches
ft2m(ft) == ft * FT2M
in2m(inch) == inch * IN2M
ft2in(ft) == ft * In(12)

tierHeightFt(q, idx) == q.tierHeights[idx]

RECURSIVE SumSeq(_)
SumSeq(s) == IF s = <<>> THEN 0 ELSE Head(s) + SumSeq(Tail(s))

(***************************************************************************)
(* setupGUI.js: data-model guards                                          *)
(***************************************************************************)
\* grow that fills the array anew: n entries, every one of them mk()
growAnew(arr, n, mk) == [i \in 1..n |-> mk]

\* grow without the final 'arr.length = n': a longer array keeps its length
growNoTrim(arr, n, mk) ==
    IF Len(arr) < n
    THEN arr \o [i \in 1..(n - Len(arr)) |-> mk]
    ELSE arr

\* grow(arr, n, mk): push mk() until n entries, then arr.length = n
grow(arr, n, mk) ==
    IF Len(arr) < n
    THEN arr \o [i \in 1..(n - Len(arr)) |-> mk]
    ELSE SubSeq(arr, 1, n)

\* the pipe every new pipe list and every added pipe starts as: 4 in, 0, 4 in
DefaultPipe == [diam |-> In(4), side |-> 0, vert |-> In(4)]

syncArrays(q) ==
    LET n == q.tierCount
    IN  [q EXCEPT !.tierHeights  = grow(@, n, 2),
                  !.ductEnabled  = grow(@, n, FALSE),
                  !.ductWidths   = grow(@, n, In(18)),
                  !.ductHeights  = grow(@, n, In(16)),
                  !.ductOffsets  = grow(@, n, 0),
                  !.pipeEnabled  = grow(@, n, FALSE),
                  !.pipesPerTier = grow(@, n, <<DefaultPipe>>)]

(***************************************************************************)
(* setupGUI.js: limits                                                     *)
(***************************************************************************)
\* sideLimit(diamIn) = ft2in(p.depth)/2 - p.postSize/2 - diamIn/2
sideLimit(q, diamIn) == (ft2in(q.depth) - q.postSize - diamIn) \div 2

\* the controllers a tier folder has when its duct (its pipes) are switched off
NoDuctCtrl == [on |-> FALSE, wMax |-> 0, hMax |-> 0, oMin |-> 0, oMax |-> 0]

\* upper end of a pipe's 'Vert offset' slider as buildTierFolders creates it
vertSliderMax(q, t, pipeObj) ==
    Max(In(1), ft2in(tierHeightFt(q, t)) - pipeObj.diam)

\* buildTierFolders(): every per-tier controller is destroyed and created anew,
\* one folder per entry of p.tierHeights, with the ranges given in the add() calls
ductCtrlOf(q, t) ==
    IF q.ductEnabled[t]
    THEN [on   |-> TRUE,
          wMax |-> In(48),
          hMax |-> In(48),
          oMin |-> -sideLimit(q, q.ductWidths[t]),
          oMax |-> sideLimit(q, q.ductWidths[t])]
    ELSE NoDuctCtrl

pipeCtrlOf(q, t) ==
    IF q.pipeEnabled[t]
    THEN [j \in 1..Len(q.pipesPerTier[t]) |->
            [oMin |-> -sideLimit(q, q.pipesPerTier[t][j].diam),
             oMax |-> sideLimit(q, q.pipesPerTier[t][j].diam),
             vMax |-> vertSliderMax(q, t, q.pipesPerTier[t][j])]]
    ELSE <<>>

buildTierFolders(q, c) ==
    [c EXCEPT !.duct = [t \in 1..Len(q.tierHeights) |-> ductCtrlOf(q, t)],
              !.pipe = [t \in 1..Len(q.tierHeights) |-> pipeCtrlOf(q, t)]]

\* refreshTierLimits with the offset limit taken from the width as it was
\* before the width clamp
refreshDuctStaleLimit(s, t) ==
    LET q    == s.p
        hMax == Max(In(1), ft2in(tierHeightFt(q, t)))
        wMax == Max(In(1), ft2in(q.depth) - q.postSize)
        lim  == sideLimit(q, q.ductWidths[t])
    IN  IF ~q.ductEnabled[t] THEN s
        ELSE [p |-> [q EXCEPT !.ductHeights[t] = Min(@, hMax),
                              !.ductWidths[t]  = Min(@, wMax),
                              !.ductOffsets[t] = clamp(@, -lim, lim)],
              c |-> [s.c EXCEPT !.duct[t].hMax = hMax,
                                !.duct[t].wMax = wMax,
                                !.duct[t].oMin = -lim,
                                !.duct[t].oMax = lim]]

\* refreshTierLimits(tIdx), duct part: re-range the three duct sliders of the
\* tier and clamp the stored height, width and offset
refreshDuct(s, t) ==
    LET q    == s.p
        hMax == Max(In(1), ft2in(tierHeightFt(q, t)))
        wMax == Max(In(1), ft2in(q.depth) - q.postSize)
        w    == Min(q.ductWidths[t], wMax)
        lim  == sideLimit(q, w)
    IN  IF ~q.ductEnabled[t] THEN s
        ELSE [p |-> [q EXCEPT !.ductHeights[t] = Min(@, hMax),
                              !.ductWidths[t]  = w,
                              !.ductOffsets[t] = clamp(@, -lim, lim)],
              c |-> [s.c EXCEPT !.duct[t].hMax = hMax,
                                !.duct[t].wMax = wMax,
                                !.duct[t].oMin = -lim,
                                !.duct[t].oMax = lim]]

\* refreshTierLimits(tIdx), pipe part: for every pipe of the tier that has
\* controllers, re-range its side and vert sliders and clamp side and vert
refreshPipeObj(q, t, pipeObj) ==
    LET lim  == sideLimit(q, pipeObj.diam)
        vMax == Max(In(1), ft2in(tierHeightFt(q, t)))
    IN  [pipeObj EXCEPT !.side = clamp(@, -lim, lim),
                        !.vert = Min(@, vMax)]

refreshPipes(s, t) ==
    LET q == s.p
        has(j) == j <= Len(s.c.pipe[t])
    IN  IF ~q.pipeEnabled[t] THEN s
        ELSE [p |-> [q EXCEPT !.pipesPerTier[t] =
                        [j \in 1..Len(@) |->
                            IF has(j) THEN refreshPipeObj(q, t, @[j]) ELSE @[j]]],
              c |-> [s.c EXCEPT !.pipe[t] =
                        [j \in 1..Len(@) |->
                            IF j <= Len(q.pipesPerTier[t])
                            THEN [oMin |-> -sideLimit(q, q.pipesPerTier[t][j].diam),
                                  oMax |-> sideLimit(q, q.pipesPerTier[t][j].diam),
                                  vMax |-> Max(In(1), ft2in(tierHeightFt(q, t)))]
                            ELSE @[j]]]]

refreshTierLimits(s, t) == refreshPipes(refreshDuct(s, t), t)

\* tierFolders.forEach((_,i) => refreshTierLimits(i)), folders 1..n in order
RECURSIVE refreshAll(_, _, _)
refreshAll(s, t, n) ==
    IF t > n THEN s ELSE refreshAll(refreshTierLimits(s, t), t + 1, n)

\* updateGlobals() without the clamp of p.topClearance
updateGlobalsKeepTop(s) ==
    LET q      == s.p
        minTop == Max(1, q.corridorHeight - q.ceilingHeight)
        maxTop == q.corridorHeight
        s1 == [p |-> [q EXCEPT !.depth = Min(@, q.corridorWidth)],
               c |-> [s.c EXCEPT !.topMin = minTop,
                                 !.topMax = maxTop,
                                 !.depthMax = q.corridorWidth]]
    IN  refreshAll(s1, 1, Len(s.c.duct))

\* updateGlobals() without the clamp of p.depth
updateGlobalsKeepDepth(s) ==
    LET q      == s.p
        minTop == Max(1, q.corridorHeight - q.ceilingHeight)
        maxTop == q.corridorHeight
        s1 == [p |-> [q EXCEPT !.topClearance = clamp(@, minTop, maxTop)],
               c |-> [s.c EXCEPT !.topMin = minTop,
                                 !.topMax = maxTop,
                                 !.depthMax = q.corridorWidth]]
    IN  refreshAll(s1, 1, Len(s.c.duct))

updateGlobals(s) ==
    LET q      == s.p
        minTop == Max(1, q.corridorHeight - q.ceilingHeight)
        maxTop == q.corridorHeight
        s1 == [p |-> [q EXCEPT !.topClearance = clamp(@, minTop, maxTop),
                               !.depth = Min(@, q.corridorWidth)],
               c |-> [s.c EXCEPT !.topMin = minTop,
                                 !.topMax = maxTop,
                                 !.depthMax = q.corridorWidth]]
    IN  refreshAll(s1, 1, Len(s.c.duct))

(***************************************************************************)
(* nav.js: level stacking and the duct and pipe builders                   *)
(***************************************************************************)
\* the level loop without 'cursor -= h'
RECURSIVE levelLoopFixedCursor(_, _, _, _)
levelLoopFixedCursor(q, i, cursor, acc) ==
    IF i >= q.tierCount THEN acc
    ELSE IF i + 1 > Len(q.tierHeights) THEN [acc EXCEPT !.nan = TRUE]
    ELSE LET beamM == in2m(q.beamSize)
             h == ft2m(q.tierHeights[i + 1])
             bottomBeam == cursor - ((i + 1) * beamM) - h - beamM \div 2
         IN  levelLoopFixedCursor(q, i + 1, cursor,
                       [acc EXCEPT !.levels = @ \cup {bottomBeam},
                                   !.list = IF bottomBeam \in acc.levels THEN @
                                            ELSE Append(@, bottomBeam)])

\* buildRack's level loop.  i is the 0-based tier index of the source; a tier
\* height read past the end of tierHeights is undefined, ft2m of it is NaN, and
\* from then on cursor and every bottomBeam are NaN (one NaN entry in the Set).
\* levels is the Set; list is the Set in insertion order, which is what
\* [...levels] yields
RECURSIVE levelLoop(_, _, _, _)
levelLoop(q, i, cursor, acc) ==
    IF i >= q.tierCount THEN acc
    ELSE IF i + 1 > Len(q.tierHeights) THEN [acc EXCEPT !.nan = TRUE]
    ELSE LET beamM == in2m(q.beamSize)
             h == ft2m(q.tierHeights[i + 1])
             bottomBeam == cursor - ((i + 1) * beamM) - h - beamM \div 2
         IN  levelLoop(q, i + 1, cursor - h,
                       [acc EXCEPT !.levels = @ \cup {bottomBeam},
                                   !.list = IF bottomBeam \in acc.levels THEN @
                                            ELSE Append(@, bottomBeam)])

\* Math.max(...levelList) and Math.min(...levelList)
SetMax(S) == CHOOSE y \in S : \A z \in S : z <= y
SetMin(S) == CHOOSE y \in S : \A z \in S : y <= z

\* the levels of buildRack: the Set, levelList, and topLevel and bottomLevel,
\* the two levels that get the longitudinal beams
rackLevels(q) ==
    LET roofY == ft2m(q.topClearance)
        beamM == in2m(q.beamSize)
        roof  == roofY - beamM \div 2
        r     == levelLoop(q, 0, roofY,
                           [levels |-> {roof}, list |-> <<roof>>, nan |-> FALSE])
    IN  [levels |-> r.levels, list |-> r.list, nan |-> r.nan,
         topLevel |-> SetMax(r.levels), bottomLevel |-> SetMin(r.levels)]

\* the longitudinal beams of buildRack, in the order they are added:
\* [topLevel, bottomLevel].forEach(y => [dz, -dz].forEach(z => rail at (0, y, z)))
rackRails(q) ==
    LET dz == ft2m(q.depth) \div 2
        r  == rackLevels(q)
    IN  << [y |-> r.topLevel, z |-> dz],    [y |-> r.topLevel, z |-> -dz],
           [y |-> r.bottomLevel, z |-> dz], [y |-> r.bottomLevel, z |-> -dz] >>

\* the transverse loop with 'i < p.bayCount': no beam at the last boundary
rackTransOpenEnd(q) ==
    LET dx   == ft2m(q.bayCount * q.bayWidth) \div 2
        list == rackLevels(q).list
        n    == q.bayCount
    IN  [k \in 1..(Len(list) * n) |->
            [x |-> -dx + ft2m(((k - 1) % n) * q.bayWidth),
             y |-> list[(k - 1) \div n + 1]]]

\* the transverse beams of buildRack, in the order they are added:
\* levelList.forEach(y => for (i = 0; i <= p.bayCount; i++) beam at (x_i, y, 0))
rackTrans(q) ==
    LET dx   == ft2m(q.bayCount * q.bayWidth) \div 2
        list == rackLevels(q).list
        n    == q.bayCount + 1
    IN  [k \in 1..(Len(list) * n) |->
            [x |-> -dx + ft2m(((k - 1) % n) * q.bayWidth),
             y |-> list[(k - 1) \div n + 1]]]

\* the posts of buildRack: every post is a box of height totalH whose centre
\* is at Y = roofY - (sum of tiersM + (tierCount + 1) * beamM) / 2
rackPosts(q) ==
    LET roofY  == ft2m(q.topClearance)
        beamM  == in2m(q.beamSize)
        tiersM == [i \in 1..Len(q.tierHeights) |-> ft2m(q.tierHeights[i])]
    IN  [totalH |-> SumSeq(tiersM) + (q.tierCount - 1) * beamM,
         y      |-> roofY - (SumSeq(tiersM) + (q.tierCount + 1) * beamM) \div 2]

\* bottomBeamCenterY(p, idx): centre-Y of the bottom beam of tier idx (1-based)
RECURSIVE bottomBeamLoop(_, _, _, _)
bottomBeamLoop(q, i, idx, y) ==
    IF i >= idx THEN y
    ELSE LET beamM == in2m(q.beamSize)
         IN  bottomBeamLoop(q, i + 1, idx,
                 y - beamM \div 2 - ft2m(q.tierHeights[i + 1]) - beamM \div 2)

bottomBeamCenterY(q, idx) ==
    bottomBeamLoop(q, 0, idx, ft2m(q.topClearance) - in2m(q.beamSize) \div 2)

\* the tier envelope both builders use: top of the tier's bottom beam, and that
\* plus the tier's clear height
tierBottomY(q, idx) == bottomBeamCenterY(q, idx) + in2m(q.beamSize) \div 2
tierTopY(q, idx) == tierBottomY(q, idx) + ft2m(q.tierHeights[idx])

\* buildDuct: the box of tier ductTier, with its centre position
buildDuct(q, ductTier, ductWidth, ductHeight, ductOffset) ==
    [tier   |-> ductTier,
     height |-> in2m(ductHeight),
     width  |-> in2m(ductWidth),
     y      |-> tierBottomY(q, ductTier) + in2m(ductHeight) \div 2,
     z      |-> in2m(ductOffset)]

\* buildPipesFlexible: one cylinder per pipe of the list, Y clamped into the tier
pipeMesh(q, tierIdx, j, pipeObj) ==
    LET rM   == in2m(pipeObj.diam) \div 2
        y    == tierBottomY(q, tierIdx) + in2m(pipeObj.vert) + rM
        maxY == tierTopY(q, tierIdx) - rM
        minY == tierBottomY(q, tierIdx) + rM
    IN  [tier |-> tierIdx, idx |-> j, r |-> rM,
         y |-> clamp(y, minY, maxY), z |-> in2m(pipeObj.side)]

buildPipesFlexible(q, tierIdx, pipes) ==
    { pipeMesh(q, tierIdx, j, pipes[j]) : j \in 1..Len(pipes) }

(***************************************************************************)
(* setupGUI.js: scene rebuild                                              *)
(***************************************************************************)
\* rebuildScene() without the 'if (!en) return' of its two forEach loops
rebuildSceneAllTiers(q) ==
    [rack  |-> rackLevels(q),
     posts |-> rackPosts(q),
     rails |-> rackRails(q),
     trans |-> rackTrans(q),
     ducts |-> { buildDuct(q, i, q.ductWidths[i], q.ductHeights[i], q.ductOffsets[i]) :
                   i \in 1..Len(q.ductEnabled) },
     pipes |-> UNION { buildPipesFlexible(q, i, q.pipesPerTier[i]) :
                   i \in 1..Len(q.pipeEnabled) }]

\* rebuildScene(): the previous rack, shell, duct group and pipe group are
\* disposed and removed, and the four are built again from p
rebuildScene(q) ==
    [rack  |-> rackLevels(q),
     posts |-> rackPosts(q),
     rails |-> rackRails(q),
     trans |-> rackTrans(q),
     ducts |-> { buildDuct(q, i, q.ductWidths[i], q.ductHeights[i], q.ductOffsets[i]) :
                   i \in { k \in 1..Len(q.ductEnabled) : q.ductEnabled[k] } },
     pipes |-> UNION { buildPipesFlexible(q, i, q.pipesPerTier[i]) :
                   i \in { k \in 1..Len(q.pipeEnabled) : q.pipeEnabled[k] } }]

\* the generated objects in the scene graph: kind is the handle that held the
\* object when it was added (rackObj, shellObj, ductGroup, pipeGroup), age
\* the number of rebuilds since (0: added by the latest one; capped at
\* MaxAge), generated its userData.generated flag
Kinds == {"rackObj", "shellObj", "ductGroup", "pipeGroup"}
aged(objs) ==
    { [o EXCEPT !.age = Min(@ + 1, MaxAge)] : o \in objs }

\* rebuildScene() without 'if (pipeGroup) { dispose; scene.remove }'
regenerateKeepPipes(children) ==
    aged({ o \in children : o.age # 0 \/ o.kind = "pipeGroup" })
        \cup { [kind |-> k, age |-> 0, generated |-> FALSE] : k \in Kinds }

\* rebuildScene(): each handle that holds an object (the one of its kind the
\* latest rebuild added) has it disposed and removed; the four new objects
\* are assigned to the handles and added
regenerate(children) ==
    aged({ o \in children : o.age # 0 })
        \cup { [kind |-> k, age |-> 0, generated |-> FALSE] : k \in Kinds }

\* the scene after a rebuild: geometry g, scene graph children
sceneOf(g, children) ==
    [rack |-> g.rack, posts |-> g.posts, rails |-> g.rails, trans |-> g.trans,
     ducts |-> g.ducts, pipes |-> g.pipes, children |-> children]

(***************************************************************************)
(* Initial state: params of the main script, then setupGUI's rollout       *)
(***************************************************************************)
params ==
    [corridorWidth |-> 10, corridorHeight |-> 15, ceilingHeight |-> 9,
     bayCount |-> 4, bayWidth |-> 3, depth |-> 4,
     topClearance |-> 15, postSize |-> In(2), beamSize |-> In(2),
     tierCount |-> 2, tierHeights |-> <<2, 2>>,
     ductEnabled |-> <<TRUE, FALSE>>,
     ductWidths  |-> <<In(18), In(18)>>,
     ductHeights |-> <<In(16), In(16)>>,
     ductOffsets |-> <<0, 0>>,
     pipeEnabled |-> <<>>, pipesPerTier |-> <<>>]

\* the ranges the global sliders are created with (gui.add(p, key, min, max))
ctrl0(q) ==
    [depthMax |-> q.corridorWidth, topMin |-> 1, topMax |-> q.corridorHeight,
     ceilMax |-> q.corridorHeight, duct |-> <<>>, pipe |-> <<>>]

\* setupGUI(scene, p, ...): syncArrays(); ...; buildTierFolders();
\* updateGlobals(); rebuildScene()
setupGUI(q) ==
    LET q1 == syncArrays(q)
    IN  updateGlobals([p |-> q1, c |-> buildTierFolders(q1, ctrl0(q1))])

\* what a handler did: clamped, it ran the clamp pass (updateGlobals, or
\* clampGlobals in part_003); resized, it ran syncArrays(); rebuilt, it ran
\* rebuildScene() to its end; threw, it ended by an uncaught exception
Op(clamped, resized, rebuilt) ==
    [clamped |-> clamped, resized |-> resized, rebuilt |-> rebuilt,
     threw |-> FALSE]
Threw(op) == [op EXCEPT !.threw = TRUE]
Setup == Op(TRUE, TRUE, TRUE)
Clamped == Op(TRUE, FALSE, TRUE)
ResizedOp == Op(FALSE, TRUE, TRUE)
Edited == Op(FALSE, FALSE, TRUE)
Idle == Op(FALSE, FALSE, FALSE)

Init ==
    /\ p = setupGUI(params).p
    /\ ctrl = setupGUI(params).c
    /\ scene = sceneOf(rebuildScene(setupGUI(params).p), regenerate({}))
    /\ lastOp = Setup
    /\ chat = 0

(***************************************************************************)
(* setupGUI.js: the handlers.  Every action is one controller edit: lil-gui *)
(* stores the clamped value into p, then runs the onChange/onFinishChange  *)
(* callback to its end.                                                    *)
(***************************************************************************)
\* the end of a handler: the state it leaves, and rebuildScene() as last call
Done(s, op) ==
    /\ p' = s.p
    /\ ctrl' = s.c
    /\ scene' = sceneOf(rebuildScene(s.p), regenerate(scene.children))
    /\ lastOp' = op
    /\ UNCHANGED chat

Cur == [p |-> p, c |-> ctrl]

\* raw values tried on the global sliders
CorridorWidthRaw == {6, 10}
CorridorHeightRaw == {8, 15, 60}
CeilingHeightRaw == {0, 9, 15}
DepthRaw == {1, 4}
WideDepthRaw == {4, 10}
TopClearanceRaw == {1, 15}
PostSizeRaw == {In(2), In(12)}
BeamSizeRaw == {In(2), In(12)}

\* gui.add(p,'corridorWidth',6,40).onFinishChange(updateGlobals; rebuildScene)
CorridorWidthEdit ==
    \E v \in Slider(CorridorWidthRaw, 6, 40) :
        /\ v # p.corridorWidth
        /\ Done(updateGlobals([Cur EXCEPT !.p.corridorWidth = v]), Clamped)

\* gui.add(p,'corridorHeight',8,60)
CorridorHeightEdit ==
    \E v \in Slider(CorridorHeightRaw, 8, 60) :
        /\ v # p.corridorHeight
        /\ Done(updateGlobals([Cur EXCEPT !.p.corridorHeight = v]), Clamped)

\* gui.add(p,'ceilingHeight',0,p.corridorHeight): the range is fixed at setup
CeilingHeightEdit ==
    \E v \in Slider(CeilingHeightRaw, 0, ctrl.ceilMax) :
        /\ v # p.ceilingHeight
        /\ Done(updateGlobals([Cur EXCEPT !.p.ceilingHeight = v]), Clamped)

\* depthCtrl = gui.add(p,'depth',1,p.corridorWidth); updateGlobals re-ranges it
DepthEdit(raw) ==
    \E v \in Slider(raw, 1, ctrl.depthMax) :
        /\ v # p.depth
        /\ Done(updateGlobals([Cur EXCEPT !.p.depth = v]), Clamped)

\* topCtrl = gui.add(p,'topClearance',1,p.corridorHeight).onFinishChange(rebuildScene)
TopClearanceEdit ==
    \E v \in Slider(TopClearanceRaw, ctrl.topMin, ctrl.topMax) :
        /\ v # p.topClearance
        /\ Done([Cur EXCEPT !.p.topClearance = v], Edited)

\* gui.add(p,'postSize',0.5,12)
PostSizeEdit ==
    \E v \in Slider(PostSizeRaw, 1, In(12)) :
        /\ v # p.postSize
        /\ Done(updateGlobals([Cur EXCEPT !.p.postSize = v]), Clamped)

\* gui.add(p,'beamSize',0.5,12)
BeamSizeEdit ==
    \E v \in Slider(BeamSizeRaw, 1, In(12)) :
        /\ v # p.beamSize
        /\ Done(updateGlobals([Cur EXCEPT !.p.beamSize = v]), Clamped)

\* gui.add(p,'tierCount',1,10,1): syncArrays(); buildTierFolders(); rebuildScene()
TierCountEdit ==
    \E v \in Slider(1..MaxTiers, 1, 10) :
        /\ v # p.tierCount
        /\ LET q == syncArrays([p EXCEPT !.tierCount = v])
           IN  Done([p |-> q, c |-> buildTierFolders(q, ctrl)], ResizedOp)

\* raw values tried on the per-tier sliders
TierHeightRaw == {1, 2}
DuctWidthRaw == {In(48)}
DuctHeightRaw == {In(48)}
DuctOffsetRaw == {In(60)}
PipeDiamRaw == {In(24)}
PipeSideRaw == {In(60)}
PipeVertRaw == {In(72)}

\* the tier folders that exist, and those of them the model operates
Folders == 1..Len(ctrl.duct)
Tiers == 1..Min(MaxEditTier, Len(ctrl.duct))

\* tf.add(p.tierHeights, tIdx, 1, 6): refreshTierLimits(tIdx); rebuildScene()
TierHeightEdit(t) ==
    \E v \in Slider(TierHeightRaw, 1, 6) :
        /\ v # p.tierHeights[t]
        /\ Done(refreshTierLimits([Cur EXCEPT !.p.tierHeights[t] = v], t), Edited)

\* tf.add(p.ductEnabled, tIdx) 'Has duct': buildTierFolders(); rebuildScene()
DuctToggle(t) ==
    LET q == [p EXCEPT !.ductEnabled[t] = ~@]
    IN  Done([p |-> q, c |-> buildTierFolders(q, ctrl)], Edited)

\* dW = df.add(p.ductWidths, tIdx, 4, 48): refreshTierLimits(tIdx); rebuildScene()
DuctWidthEdit(t) ==
    /\ ctrl.duct[t].on
    /\ \E v \in Slider(DuctWidthRaw, In(4), ctrl.duct[t].wMax) :
        /\ v # p.ductWidths[t]
        /\ Done(refreshTierLimits([Cur EXCEPT !.p.ductWidths[t] = v], t), Edited)

\* dH = df.add(p.ductHeights, tIdx, 4, 48).onFinishChange(rebuildScene)
DuctHeightEdit(t) ==
    /\ ctrl.duct[t].on
    /\ \E v \in Slider(DuctHeightRaw, In(4), ctrl.duct[t].hMax) :
        /\ v # p.ductHeights[t]
        /\ Done([Cur EXCEPT !.p.ductHeights[t] = v], Edited)

\* dO = df.add(p.ductOffsets, tIdx, -lim, lim).onFinishChange(rebuildScene)
DuctOffsetEdit(t) ==
    /\ ctrl.duct[t].on
    /\ \E v \in Slider(DuctOffsetRaw, ctrl.duct[t].oMin, ctrl.duct[t].oMax) :
        /\ v # p.ductOffsets[t]
        /\ Done([Cur EXCEPT !.p.ductOffsets[t] = v], Edited)

\* tf.add(p.pipeEnabled, tIdx) 'Has pipes': buildTierFolders(); rebuildScene()
PipeToggle(t) ==
    LET q == [p EXCEPT !.pipeEnabled[t] = ~@]
    IN  Done([p |-> q, c |-> buildTierFolders(q, ctrl)], Edited)

\* the 'Count' number box: push defaults while shorter, arr.length = n,
\* buildTierFolders(); rebuildScene()
PipeCountSet(t, n) ==
    /\ p.pipeEnabled[t]
    /\ n # Len(p.pipesPerTier[t])
    /\ LET q == [p EXCEPT !.pipesPerTier[t] = grow(@, n, DefaultPipe)]
       IN  Done([p |-> q, c |-> buildTierFolders(q, ctrl)], Edited)

PipeCountEdit(t) == \E n \in 0..MaxPipes : PipeCountSet(t, n)

\* the 'Count' box has no minimum: for n < 0 the while loop pushes nothing and
\* 'arr.length = n' throws RangeError (invalid array length); the list is as
\* it was, and buildTierFolders() and rebuildScene() are not reached
PipeCountRaw == {-1}
PipeCountNegative(t) ==
    /\ p.pipeEnabled[t]
    /\ \E n \in PipeCountRaw :
        /\ n < 0
        /\ lastOp' = Threw(Idle)
        /\ UNCHANGED <<p, ctrl, scene, chat>>

\* the pipe folders of tier t that the model operates
PipeCtrls(t) == 1..Min(MaxEditPipe, Len(ctrl.pipe[t]))

\* dC = sub.add(pipeObj,'diam',1,24): refreshTierLimits(tIdx); vC.max(vMaxNew);
\* rebuildScene()
PipeDiamEdit(t, j) ==
    \E v \in Slider(PipeDiamRaw, In(1), In(24)) :
        /\ v # p.pipesPerTier[t][j].diam
        /\ LET s == refreshTierLimits([Cur EXCEPT !.p.pipesPerTier[t][j].diam = v], t)
           IN  Done([s EXCEPT !.c.pipe[t][j].vMax =
                        vertSliderMax(s.p, t, s.p.pipesPerTier[t][j])], Edited)

\* oC = sub.add(pipeObj,'side',-lim,lim).onFinishChange(rebuildScene)
PipeSideEdit(t, j) ==
    \E v \in Slider(PipeSideRaw, ctrl.pipe[t][j].oMin, ctrl.pipe[t][j].oMax) :
        /\ v # p.pipesPerTier[t][j].side
        /\ Done([Cur EXCEPT !.p.pipesPerTier[t][j].side = v], Edited)

\* vC = sub.add(pipeObj,'vert',0,vMax).onFinishChange(rebuildScene)
PipeVertEdit(t, j) ==
    \E v \in Slider(PipeVertRaw, 0, ctrl.pipe[t][j].vMax) :
        /\ v # p.pipesPerTier[t][j].vert
        /\ Done([Cur EXCEPT !.p.pipesPerTier[t][j].vert = v], Edited)

(***************************************************************************)
(* Specifications                                                          *)
(***************************************************************************)
\* the corridor and rack-envelope sliders
NextCorridor ==
    \/ CorridorWidthEdit
    \/ CorridorHeightEdit
    \/ CeilingHeightEdit
    \/ DepthEdit(WideDepthRaw)
    \/ TopClearanceEdit

\* the duct controls, with the sliders their limits depend on
NextDuct ==
    \/ DepthEdit(DepthRaw)
    \/ PostSizeEdit
    \/ TierCountEdit
    \/ \E t \in Tiers : TierHeightEdit(t)
    \/ \E t \in Tiers : DuctToggle(t)
    \/ \E t \in Tiers : DuctWidthEdit(t)
    \/ \E t \in Tiers : DuctHeightEdit(t)
    \/ \E t \in Tiers : DuctOffsetEdit(t)

\* the pipe controls, with the sliders their limits depend on
NextPipe ==
    \/ DepthEdit(DepthRaw)
    \/ PostSizeEdit
    \/ \E t \in Tiers : TierHeightEdit(t)
    \/ \E t \in Tiers : PipeToggle(t)
    \/ \E t \in Tiers : PipeCountEdit(t)
    \/ \E t \in Tiers : PipeCountNegative(t)
    \/ \E t \in Tiers : \E j \in PipeCtrls(t) : PipeDiamEdit(t, j)
    \/ \E t \in Tiers : \E j \in PipeCtrls(t) : PipeSideEdit(t, j)
    \/ \E t \in Tiers : \E j \in PipeCtrls(t) : PipeVertEdit(t, j)

\* every control of the panel
Next ==
    \/ NextCorridor
    \/ NextDuct
    \/ NextPipe
    \/ BeamSizeEdit

Spec == Init /\ [][Next]_vars
SpecCorridor == Init /\ [][NextCorridor]_vars
SpecDuct == Init /\ [][NextDuct]_vars
SpecPipe == Init /\ [][NextPipe]_vars

\* the tier-count control, with per-tier edits that give the arrays content
NextResize ==
    \/ TierCountEdit
    \/ \E t \in Tiers : TierHeightEdit(t)
    \/ \E t \in Tiers : DuctToggle(t)
    \/ \E t \in Tiers : DuctWidthEdit(t)
    \/ \E t \in Tiers : DuctHeightEdit(t)
    \/ \E t \in Tiers : DuctOffsetEdit(t)
    \/ \E t \in Tiers : PipeToggle(t)
    \/ \E t \in Tiers : PipeCountEdit(t)
    \/ \E t \in Tiers : \E j \in PipeCtrls(t) : PipeVertEdit(t, j)

SpecResize == Init /\ [][NextResize]_vars

\* the controls of the upstream parameters: corridorWidth, depth, postSize,
\* beamSize, topClearance, tierCount and the tier heights, with the duct
\* toggle that gives the tiers something to clamp
NextUpstream ==
    \/ CorridorWidthEdit
    \/ DepthEdit(DepthRaw)
    \/ PostSizeEdit
    \/ BeamSizeEdit
    \/ TopClearanceEdit
    \/ TierCountEdit
    \/ \E t \in Tiers : TierHeightEdit(t)
    \/ \E t \in Tiers : DuctToggle(t)

SpecUpstream == Init /\ [][NextUpstream]_vars

(***************************************************************************)
(* buildRack as a function of its parameters                               *)
(***************************************************************************)
RackHeightRaw == {0, 1, 2}
RackTopRaw == {8, 15}
RackBayRaw == {1, 4}

\* the tier-height lists of 0..MaxTiers tiers
RackHeights == UNION { [1..n -> RackHeightRaw] : n \in 0..MaxTiers }

NoScene ==
    [rack  |-> [levels |-> {}, list |-> <<>>, nan |-> FALSE,
                topLevel |-> 0, bottomLevel |-> 0],
     posts |-> [totalH |-> 0, y |-> 0],
     rails |-> <<>>, trans |-> <<>>,
     ducts |-> {}, pipes |-> {}, children |-> {}]

InitRack ==
    /\ \E hs \in RackHeights, b \in BeamSizeRaw, tc \in RackTopRaw,
          bays \in RackBayRaw :
          p = syncArrays([params EXCEPT !.tierCount = Len(hs),
                                        !.tierHeights = hs,
                                        !.beamSize = b,
                                        !.topClearance = tc,
                                        !.bayCount = bays])
    /\ ctrl = ctrl0(params)
    /\ scene = NoScene
    /\ lastOp = Idle
    /\ chat = 0

\* rackObj = buildRack(p, steelMat)
BuildRack ==
    /\ ~lastOp.rebuilt
    /\ scene' = [scene EXCEPT !.rack = rackLevels(p), !.posts = rackPosts(p),
                              !.rails = rackRails(p), !.trans = rackTrans(p)]
    /\ lastOp' = Edited
    /\ UNCHANGED <<p, ctrl, chat>>

SpecRack == InitRack /\ [][BuildRack]_vars

(***************************************************************************)
(* part_003 and part_000: the controllerMap-based panel and the chat       *)
(***************************************************************************)
\* syncArrays(p) of part_003: one default, 18, for widths, heights and offsets
syncArrays3(q) ==
    LET n == q.tierCount
    IN  [q EXCEPT !.tierHeights  = grow(@, n, 2),
                  !.ductEnabled  = grow(@, n, FALSE),
                  !.ductWidths   = grow(@, n, In(18)),
                  !.ductHeights  = grow(@, n, In(18)),
                  !.ductOffsets  = grow(@, n, In(18)),
                  !.pipeEnabled  = grow(@, n, FALSE),
                  !.pipesPerTier = grow(@, n, <<DefaultPipe>>)]

\* buildTierFolders(gui, p) of part_003: folders for t < p.tierCount; the vert
\* slider of a pipe is created with the range 0..max(1, 12 * tierHeight)
pipeCtrlOf3(q, t) ==
    IF q.pipeEnabled[t]
    THEN [j \in 1..Len(q.pipesPerTier[t]) |->
            [oMin |-> -sideLimit(q, q.pipesPerTier[t][j].diam),
             oMax |-> sideLimit(q, q.pipesPerTier[t][j].diam),
             vMax |-> Max(In(1), ft2in(tierHeightFt(q, t)))]]
    ELSE <<>>

buildTierFolders3(q, c) ==
    [c EXCEPT !.duct = [t \in 1..q.tierCount |-> ductCtrlOf(q, t)],
              !.pipe = [t \in 1..q.tierCount |-> pipeCtrlOf3(q, t)]]

\* clampGlobals(p): minTop = max(1, corridorHeight - corridorHeight)
clampGlobals(s) ==
    LET q      == s.p
        minTop == Max(1, q.corridorHeight - q.corridorHeight)
        maxTop == q.corridorHeight
    IN  [p |-> [q EXCEPT !.topClearance = clamp(@, minTop, maxTop),
                         !.depth = Min(@, q.corridorWidth)],
         c |-> [s.c EXCEPT !.topMin = minTop,
                           !.topMax = maxTop,
                           !.depthMax = q.corridorWidth]]

\* the function buildSceneRebuilder returns: every child of the scene with
\* userData.generated is disposed and removed, then the same four builds as
\* rebuildScene of setupGUI.js, each flagged generated and added
regenerate3(children) ==
    aged({ o \in children : ~o.generated })
        \cup { [kind |-> k, age |-> 0, generated |-> TRUE] : k \in Kinds }

buildSceneRebuilder(q, children) ==
    sceneOf(rebuildScene(q), regenerate3(children))

\* setupGUI of part_003: ensureArrays; syncArrays; buildControllers;
\* buildTierFolders; clampGlobals; rebuildScene()
setupGUI3(q) ==
    LET q1 == syncArrays3(q)
    IN  clampGlobals([p |-> q1, c |-> buildTierFolders3(q1, ctrl0(q1))])

InitChat ==
    /\ p = setupGUI3(params).p
    /\ ctrl = setupGUI3(params).c
    /\ scene = buildSceneRebuilder(setupGUI3(params).p, {})
    /\ lastOp = Setup
    /\ chat = 0

\* a controller handler of part_003 ends at controllerMap._rebuildScene(),
\* which nothing ever assigns: the call throws and no rebuild runs
Thrown(s, op) ==
    /\ p' = s.p
    /\ ctrl' = s.c
    /\ lastOp' = Threw(op)
    /\ UNCHANGED <<scene, chat>>

\* controllerMap.tierCount: syncArrays(p); buildTierFolders(gui, p);
\* clampGlobals(p); controllerMap._rebuildScene()
TierCountEdit3 ==
    \E v \in Slider(1..MaxTiers, 1, 10) :
        /\ v # p.tierCount
        /\ LET q == syncArrays3([p EXCEPT !.tierCount = v])
           IN  Thrown(clampGlobals([p |-> q, c |-> buildTierFolders3(q, ctrl)]),
                      Op(TRUE, TRUE, FALSE))

\* controllerMap.depth: clampGlobals(p); controllerMap._rebuildScene()
DepthEdit3 ==
    \E v \in Slider(DepthRaw, 1, ctrl.depthMax) :
        /\ v # p.depth
        /\ Thrown(clampGlobals([Cur EXCEPT !.p.depth = v]), Op(TRUE, FALSE, FALSE))

\* the submit handler up to its await: the request is sent
ChatSubmit ==
    /\ chat < MaxInflight
    /\ chat' = chat + 1
    /\ lastOp' = Idle
    /\ UNCHANGED <<p, ctrl, scene>>

\* the handler's early return: fetch failed, or the reply is no JSON
ChatError ==
    /\ chat > 0
    /\ chat' = chat - 1
    /\ lastOp' = Idle
    /\ UNCHANGED <<p, ctrl, scene>>

\* 7a: params[key][t] = updates[key], t = updates.tier - 1
patchTier(q, key, tier, v) ==
    [q EXCEPT ![key] = IF tier <= Len(@) THEN [@ EXCEPT ![tier] = v]
                       ELSE Append(@, v)]

\* 7b: if (k in params) params[k] = v
patchTop(q, k, v) == IF k \in DOMAIN q THEN [q EXCEPT ![k] = v] ELSE q

\* steps 7 to 9 of the handler, after the reply arrived: apply the patch,
\* updateGUI(updates) (setValue of a value already stored changes nothing and
\* runs no onFinishChange), rebuildScene()
ChatDone(q) ==
    /\ chat > 0
    /\ chat' = chat - 1
    /\ p' = q
    /\ scene' = buildSceneRebuilder(q, scene.children)
    /\ lastOp' = Edited
    /\ UNCHANGED ctrl

\* replies of the forms {"tierCount": k}, {"depth": d} and
\* {"tier": t, "tierHeights": h} with t up to one past the last tier
ChatTierCount == \E k \in 1..MaxTiers : ChatDone(patchTop(p, "tierCount", k))
ChatDepth == \E d \in DepthRaw : ChatDone(patchTop(p, "depth", d))
ChatTierHeight ==
    \E t \in 1..(Len(p.tierHeights) + 1), h \in TierHeightRaw :
        /\ t <= MaxTiers
        /\ ChatDone(patchTier(p, "tierHeights", t, h))

NextChat ==
    \/ TierCountEdit3
    \/ DepthEdit3
    \/ ChatSubmit
    \/ ChatError
    \/ ChatTierCount
    \/ ChatDepth
    \/ ChatTierHeight

SpecChat == InitChat /\ [][NextChat]_vars

\* controllerMap.corridorWidth: clampGlobals(p); controllerMap._rebuildScene()
CorridorWidthEdit3 ==
    \E v \in Slider(CorridorWidthRaw, 6, 40) :
        /\ v # p.corridorWidth
        /\ Thrown(clampGlobals([Cur EXCEPT !.p.corridorWidth = v]),
                  Op(TRUE, FALSE, FALSE))

\* controllerMap.corridorHeight: clampGlobals(p); controllerMap._rebuildScene()
CorridorHeightEdit3 ==
    \E v \in Slider(CorridorHeightRaw, 8, 60) :
        /\ v # p.corridorHeight
        /\ Thrown(clampGlobals([Cur EXCEPT !.p.corridorHeight = v]),
                  Op(TRUE, FALSE, FALSE))

\* controllerMap.ceilingHeight, range [0, p.corridorHeight] fixed at setup:
\* clampGlobals(p); controllerMap._rebuildScene()
CeilingHeightEdit3 ==
    \E v \in Slider(CeilingHeightRaw, 0, ctrl.ceilMax) :
        /\ v # p.ceilingHeight
        /\ Thrown(clampGlobals([Cur EXCEPT !.p.ceilingHeight = v]),
                  Op(TRUE, FALSE, FALSE))

\* controllerMap.topClearance: .onFinishChange(controllerMap._rebuildScene)
\* registers undefined, the value is stored and no handler runs
TopClearanceEdit3 ==
    \E v \in Slider(TopClearanceRaw, ctrl.topMin, ctrl.topMax) :
        /\ v # p.topClearance
        /\ p' = [p EXCEPT !.topClearance = v]
        /\ lastOp' = Idle
        /\ UNCHANGED <<ctrl, scene, chat>>

\* the global sliders of part_003
NextGlobals3 ==
    \/ CorridorWidthEdit3
    \/ CorridorHeightEdit3
    \/ CeilingHeightEdit3
    \/ TopClearanceEdit3
    \/ DepthEdit3

SpecGlobals3 == InitChat /\ [][NextGlobals3]_vars

(***************************************************************************)
(* setupGUI.js with the identity of each tier's pipe list                  *)
(***************************************************************************)
\* p.listId[t] is the identity of the array object p.pipesPerTier[t]: a write
\* through one tier's list shows in every tier that holds the same array
freshId(ids) ==
    CHOOSE k \in 1..(Len(ids) + 1) : \A i \in DOMAIN ids : ids[i] # k

\* grow with mk evaluated once: every pushed entry is the same new array
growIdsShared(ids, n) ==
    IF Len(ids) < n
    THEN ids \o [i \in 1..(n - Len(ids)) |-> freshId(ids)]
    ELSE SubSeq(ids, 1, n)

\* grow(p.pipesPerTier, n, ()=>[{...}]): every push calls mk(), a new array
RECURSIVE growIds(_, _)
growIds(ids, n) ==
    IF Len(ids) < n
    THEN growIds(Append(ids, freshId(ids)), n)
    ELSE SubSeq(ids, 1, n)

syncArraysId(q) == [syncArrays(q) EXCEPT !.listId = growIds(@, q.tierCount)]

\* a write into the array of tier t, seen through every tier that holds it
shared(q, t) ==
    [q EXCEPT !.pipesPerTier =
        [k \in DOMAIN @ |-> IF q.listId[k] = q.listId[t] THEN @[t] ELSE @[k]]]

InitId ==
    /\ p = syncArraysId([listId |-> <<>>] @@ setupGUI(params).p)
    /\ ctrl = setupGUI(params).c
    /\ scene = sceneOf(rebuildScene(setupGUI(params).p), regenerate({}))
    /\ lastOp = Setup
    /\ chat = 0

\* gui.add(p,'tierCount',1,10,1): syncArrays(); buildTierFolders(); rebuildScene()
TierCountEditId ==
    \E v \in Slider(1..MaxTiers, 1, 10) :
        /\ v # p.tierCount
        /\ LET q == syncArraysId([p EXCEPT !.tierCount = v])
           IN  Done([p |-> q, c |-> buildTierFolders(q, ctrl)], ResizedOp)

\* the 'Count' number box, writing into the array p.pipesPerTier[tIdx]
PipeCountSetId(t, n) ==
    /\ p.pipeEnabled[t]
    /\ n # Len(p.pipesPerTier[t])
    /\ LET q == shared([p EXCEPT !.pipesPerTier[t] = grow(@, n, DefaultPipe)], t)
       IN  Done([p |-> q, c |-> buildTierFolders(q, ctrl)], Edited)

PipeCountEditId(t) == \E n \in 0..MaxPipes : PipeCountSetId(t, n)

\* dC = sub.add(pipeObj,'diam',1,24), writing into the objects of the array
PipeDiamEditId(t, j) ==
    \E v \in Slider(PipeDiamRaw, In(1), In(24)) :
        /\ v # p.pipesPerTier[t][j].diam
        /\ LET s  == refreshTierLimits([Cur EXCEPT !.p.pipesPerTier[t][j].diam = v], t)
               s1 == [s EXCEPT !.p = shared(s.p, t)]
           IN  Done([s1 EXCEPT !.c.pipe[t][j].vMax =
                        vertSliderMax(s1.p, t, s1.p.pipesPerTier[t][j])], Edited)

\* tierCount and the pipe controls of every tier folder
NextId ==
    \/ TierCountEditId
    \/ \E t \in Folders : PipeToggle(t)
    \/ \E t \in Folders : PipeCountEditId(t)
    \/ \E t \in Folders : \E j \in PipeCtrls(t) : PipeDiamEditId(t, j)

SpecId == InitId /\ [][NextId]_vars

(***************************************************************************)
(* Properties                                                              *)
(***************************************************************************)
\* C1: every tier with its duct enabled has a duct height (inches) of at
\* most the tier's clear height, 12 * tierHeights[t]
DuctHeightWithinTier ==
    \A t \in 1..Len(p.ductEnabled) :
        p.ductEnabled[t] => p.ductHeights[t] <= ft2in(p.tierHeights[t])

\* C2: every tier with its duct enabled has |offset| <= 12*depth/2 - postSize/2
\* - width/2, and with depth 4 ft, post 2 in, width 18 in the offset slider
\* admits exactly [-14 in, 14 in]
DuctOffsetWithinLimit ==
    \A t \in 1..Len(p.ductEnabled) :
        p.ductEnabled[t] =>
            /\ 2 * Abs(p.ductOffsets[t]) <= ft2in(p.depth) - p.postSize - p.ductWidths[t]
            /\ (p.depth = 4 /\ p.postSize = In(2) /\ p.ductWidths[t] = In(18)
                    /\ t <= Len(ctrl.duct) /\ ctrl.duct[t].on)
                => (ctrl.duct[t].oMin = -In(14) /\ ctrl.duct[t].oMax = In(14))

\* C3: every tier with its duct enabled has a duct width (inches) of at most
\* 12*depth - postSize
DuctWidthWithinDepth ==
    \A t \in 1..Len(p.ductEnabled) :
        p.ductEnabled[t] => p.ductWidths[t] <= ft2in(p.depth) - p.postSize

\* C4: every pipe the last rebuild emitted lies inside its tier's envelope:
\* centreY - radius >= tierBottomY and centreY + radius <= tierTopY
PipeInsideTier ==
    \A m \in scene.pipes :
        /\ m.y - m.r >= tierBottomY(p, m.tier)
        /\ m.y + m.r <= tierTopY(p, m.tier)

\* C5: every pipe of a tier with pipes enabled has its stored vertical offset
\* in [0, 12 * tierHeights[t] - diam]
PipeVertWithinTier ==
    \A t \in 1..Len(p.pipeEnabled) :
        p.pipeEnabled[t] =>
            \A j \in 1..Len(p.pipesPerTier[t]) :
                /\ 0 <= p.pipesPerTier[t][j].vert
                /\ p.pipesPerTier[t][j].vert
                      <= ft2in(p.tierHeights[t]) - p.pipesPerTier[t][j].diam

\* C6: the clamp pass is idempotent: when a handler has run updateGlobals()
\* and rebuilt, a second updateGlobals() leaves every parameter and every
\* slider range as the first left it, and the rebuild after it produces the
\* same geometry
ClampIdempotent ==
    lastOp.clamped =>
        /\ updateGlobals(Cur) = Cur
        /\ sceneOf(rebuildScene(updateGlobals(Cur).p), regenerate(scene.children)) = scene

\* a depth or post-size edit whose clamp pass cut the duct width of tier 1 to
\* 10 in and the side offset of its first pipe to 3 in
ClampIdempotentWitness ==
    /\ lastOp.clamped
    /\ p.depth = 1
    /\ p.ductEnabled[1] /\ p.ductWidths[1] = In(10)
    /\ p.pipeEnabled[1] /\ Len(p.pipesPerTier[1]) >= 1
    /\ p.pipesPerTier[1][1].side = In(3)

\* arr resized to k entries with its first min(oldLength, k) entries kept
Resized(old, new, k) ==
    /\ Len(new) = k
    /\ \A i \in 1..Min(Len(old), k) : new[i] = old[i]

\* C7: resize law: a step of the tier-count control leaves each of the seven
\* per-tier arrays with exactly tierCount entries, the first
\* min(oldLength, tierCount) of them unchanged
ResizeLaw ==
    [][lastOp'.resized =>
        /\ Resized(p.tierHeights,  p'.tierHeights,  p'.tierCount)
        /\ Resized(p.ductEnabled,  p'.ductEnabled,  p'.tierCount)
        /\ Resized(p.ductWidths,   p'.ductWidths,   p'.tierCount)
        /\ Resized(p.ductHeights,  p'.ductHeights,  p'.tierCount)
        /\ Resized(p.ductOffsets,  p'.ductOffsets,  p'.tierCount)
        /\ Resized(p.pipeEnabled,  p'.pipeEnabled,  p'.tierCount)
        /\ Resized(p.pipesPerTier, p'.pipesPerTier, p'.tierCount)]_vars

\* the tier count was just set to 2 (from 1, 3 or 4) and tier 1 holds edited
\* values: height 1 ft, duct 48 in high, pipes on with two pipes
ResizeLawWitness ==
    /\ lastOp.resized
    /\ p.tierCount = 2
    /\ Len(p.tierHeights) = 2 /\ Len(p.pipesPerTier) = 2
    /\ p.tierHeights[1] = 1
    /\ p.ductEnabled[1] /\ p.ductHeights[1] = In(48)
    /\ p.pipeEnabled[1] /\ Len(p.pipesPerTier[1]) = 2

\* C8: whenever a rebuild has run, each of the seven per-tier arrays has
\* exactly tierCount entries
ArraysMatchAtRebuild ==
    lastOp.rebuilt =>
        /\ Len(p.tierHeights) = p.tierCount
        /\ Len(p.ductEnabled) = p.tierCount
        /\ Len(p.ductWidths) = p.tierCount
        /\ Len(p.ductHeights) = p.tierCount
        /\ Len(p.ductOffsets) = p.tierCount
        /\ Len(p.pipeEnabled) = p.tierCount
        /\ Len(p.pipesPerTier) = p.tierCount

\* C9: the level set buildRack computes has exactly tierCount + 1 levels
RackLevelCount ==
    lastOp.rebuilt =>
        /\ ~scene.rack.nan
        /\ Cardinality(scene.rack.levels) = p.tierCount + 1

\* buildRack ran for three tiers of heights 2, 1, 2 ft under a 12 in beam
RackLevelCountWitness ==
    /\ lastOp.rebuilt
    /\ p.tierCount = 3 /\ p.tierHeights = <<2, 1, 2>> /\ p.beamSize = In(12)
    /\ Cardinality(scene.rack.levels) = 4

\* C10: ceilingHeight <= corridorHeight
CeilingBelowCorridor == p.ceilingHeight <= p.corridorHeight

\* C11: topClearance stays within [corridorHeight - ceilingHeight,
\* corridorHeight]; an edit of corridorHeight or ceilingHeight re-clamps it
TopClearanceWithinCorridor ==
    /\ p.corridorHeight - p.ceilingHeight <= p.topClearance
    /\ p.topClearance <= p.corridorHeight

\* the corridor was lowered to 8 ft and the clamp pass cut topClearance from
\* 15 ft to 8 ft
TopClearanceWitness ==
    /\ lastOp.clamped
    /\ p.corridorHeight = 8
    /\ p.topClearance = 8
    /\ p.ceilingHeight = 0

\* C12: rack depth <= corridorWidth, and the depth slider's upper end is the
\* current corridorWidth, so it admits no depth above it
DepthWithinCorridor ==
    /\ p.depth <= p.corridorWidth
    /\ ctrl.depthMax = p.corridorWidth

\* the corridor was narrowed to 6 ft under a 10 ft deep rack and the clamp
\* pass lowered the depth to 6 ft
DepthWithinCorridorWitness ==
    /\ lastOp.clamped
    /\ p.corridorWidth = 6
    /\ p.depth = 6

\* C13: every pipe of a tier with pipes enabled has |side| <= 12*depth/2 -
\* postSize/2 - diam/2, with the pipe's own diameter
PipeSideWithinLimit ==
    \A t \in 1..Len(p.pipeEnabled) :
        p.pipeEnabled[t] =>
            \A j \in 1..Len(p.pipesPerTier[t]) :
                2 * Abs(p.pipesPerTier[t][j].side)
                    <= ft2in(p.depth) - p.postSize - p.pipesPerTier[t][j].diam

\* C14: a step of the 'Count' box of tier t to n >= 0 leaves the tier with a
\* pipe list of exactly n entries: those below min(oldCount, n) unchanged,
\* those from oldCount on equal to the default pipe
PipeCountLaw ==
    [][\A t \in 1..Len(p.pipesPerTier), n \in 0..MaxPipes :
          PipeCountSet(t, n) =>
              /\ Len(p'.pipesPerTier[t]) = n
              /\ \A j \in 1..n :
                    p'.pipesPerTier[t][j] =
                        IF j <= Len(p.pipesPerTier[t])
                        THEN p.pipesPerTier[t][j]
                        ELSE DefaultPipe]_vars

\* tier 1 holds two pipes, the first with edited values (24 in diameter) and
\* the second, added by the 'Count' box, the default pipe
PipeCountLawWitness ==
    /\ p.pipeEnabled[1]
    /\ Len(p.pipesPerTier[1]) = 2
    /\ p.pipesPerTier[1][1].diam = In(24)
    /\ p.pipesPerTier[1][2] = DefaultPipe
    /\ Len(ctrl.pipe[1]) = 2

\* C15: no input is fatal: no handler ends by an exception, and the rack a
\* rebuild produced has no level at an undefined (NaN) height
NoFatalInput ==
    /\ ~lastOp.threw
    /\ lastOp.rebuilt => ~scene.rack.nan

\* C16: the total structure height of buildRack is sum(tierHeights) +
\* (tierCount - 1) * beamSize, and 0 when tierCount = 0
RackTotalHeight ==
    lastOp.rebuilt =>
        /\ scene.posts.totalH =
              SumSeq([i \in 1..Len(p.tierHeights) |-> ft2m(p.tierHeights[i])])
                  + (p.tierCount - 1) * in2m(p.beamSize)
        /\ p.tierCount = 0 => scene.posts.totalH = 0

\* C17: every post has its top face at the roof level, topClearance -
\* beamSize/2, and its bottom face at the floor, Y = 0
PostsFromFloorToRoof ==
    lastOp.rebuilt =>
        /\ 2 * scene.posts.y + scene.posts.totalH
              = 2 * ft2m(p.topClearance) - in2m(p.beamSize)
        /\ 2 * scene.posts.y - scene.posts.totalH = 0

\* C18: the highest beam level buildRack emits, the centre-line of the roof
\* beam, is at Y = topClearance
RoofBeamAtTopClearance ==
    lastOp.rebuilt => scene.rack.topLevel = ft2m(p.topClearance)

\* C19: for every tier idx, bottomBeamCenterY(p, idx) is the bottom level the
\* level loop of buildRack computed for that tier; the envelope's bottomY is
\* the top face of that beam and its topY the bottom face of the beam above;
\* and every duct and pipe of the tier lies between the two beams
EnvelopeBetweenBeams ==
    lastOp.rebuilt =>
        \A idx \in 1..p.tierCount :
            LET half  == in2m(p.beamSize) \div 2
                below == scene.rack.list[idx + 1]
                above == scene.rack.list[idx]
            IN  /\ bottomBeamCenterY(p, idx) = below
                /\ tierBottomY(p, idx) = below + half
                /\ tierTopY(p, idx) = above - half
                /\ \A d \in scene.ducts :
                      d.tier = idx =>
                          /\ d.y - d.height \div 2 >= below + half
                          /\ d.y + d.height \div 2 <= above - half
                /\ \A m \in scene.pipes :
                      m.tier = idx =>
                          /\ m.y - m.r >= below + half
                          /\ m.y + m.r <= above - half

\* the upstream parameters of the duct and pipe ranges
Upstream(q) ==
    <<q.corridorWidth, q.depth, q.postSize, q.beamSize, q.topClearance,
      q.tierCount, q.tierHeights>>

\* C20: rebuildScene never runs after a change of an upstream parameter
\* without the re-clamp of every enabled duct and pipe having run first: a
\* handler that changed an upstream parameter and rebuilt ran the clamp pass
ReclampBeforeRebuild ==
    [][(Upstream(p') # Upstream(p) /\ lastOp'.rebuilt) => lastOp'.clamped]_vars

\* C21: when the clamp bound of an enabled duct's width, 12*depth - postSize,
\* or of its height, 12*tierHeight, is <= 0, the rebuild emits no duct for
\* that tier
NoDegenerateDuct ==
    lastOp.rebuilt =>
        \A d \in scene.ducts :
            /\ ft2in(p.depth) - p.postSize > 0
            /\ ft2in(p.tierHeights[d.tier]) > 0

\* C22: longitudinal beams are emitted only at the topmost and the bottommost
\* level, and every (level, depth row) pair of those levels gets exactly one
LongitudinalBeams ==
    (lastOp.rebuilt /\ ~scene.rack.nan) =>
        LET ends == {SetMax(scene.rack.levels), SetMin(scene.rack.levels)}
            dz   == ft2m(p.depth) \div 2
        IN  /\ \A k \in 1..Len(scene.rails) : scene.rails[k].y \in ends
            /\ \A y \in ends, z \in {dz, -dz} :
                  Cardinality({k \in 1..Len(scene.rails) :
                                  scene.rails[k] = [y |-> y, z |-> z]}) = 1

\* C23: exactly one transverse beam per (level, bay boundary) pair, (number
\* of levels) * (bayCount + 1) in total, no two at the same position
TransverseBeams ==
    (lastOp.rebuilt /\ ~scene.rack.nan) =>
        LET dx == ft2m(p.bayCount * p.bayWidth) \div 2
        IN  /\ Len(scene.trans) = Cardinality(scene.rack.levels) * (p.bayCount + 1)
            /\ \A j, k \in 1..Len(scene.trans) :
                  scene.trans[j] = scene.trans[k] => j = k
            /\ \A y \in scene.rack.levels, i \in 0..p.bayCount :
                  \E k \in 1..Len(scene.trans) :
                      scene.trans[k] = [x |-> -dx + ft2m(i * p.bayWidth), y |-> y]

\* buildRack ran for three tiers of heights 2, 0, 1 ft and four bays: four
\* levels, twenty transverse beams
TransverseBeamsWitness ==
    /\ lastOp.rebuilt
    /\ p.tierHeights = <<2, 0, 1>> /\ p.tierCount = 3 /\ p.bayCount = 4
    /\ Cardinality(scene.rack.levels) = 4
    /\ Len(scene.trans) = 20

\* C25: after a rebuild that follows GUI edits, the duct group holds exactly
\* one duct for each tier t <= tierCount with ductEnabled[t] and none for any
\* other tier, and the pipe group holds pipesPerTier[t].length pipes for each
\* tier with pipeEnabled[t] and none for a disabled tier
GroupsMatchEnabledTiers ==
    lastOp.rebuilt =>
        /\ \A d \in scene.ducts : d.tier \in 1..p.tierCount
        /\ \A t \in 1..p.tierCount :
              Cardinality({d \in scene.ducts : d.tier = t}) =
                  IF p.ductEnabled[t] THEN 1 ELSE 0
        /\ \A m \in scene.pipes : m.tier \in DOMAIN p.pipeEnabled
        /\ \A t \in DOMAIN p.pipeEnabled :
              Cardinality({m \in scene.pipes : m.tier = t}) =
                  IF p.pipeEnabled[t] THEN Len(p.pipesPerTier[t]) ELSE 0

\* a rebuild after tierCount was raised to 3 and both toggles of tier 1 were
\* used: tier 1 has no duct and two pipes, tiers 2 and 3 hold a stored
\* default pipe list but are disabled, and the scene holds the two pipes only
GroupsMatchEnabledTiersWitness ==
    /\ lastOp.rebuilt
    /\ p.tierCount = 3
    /\ ~p.ductEnabled[1]
    /\ p.pipeEnabled[1] /\ Len(p.pipesPerTier[1]) = 2
    /\ ~p.pipeEnabled[2] /\ Len(p.pipesPerTier[2]) > 0
    /\ Cardinality(scene.pipes) = 2
    /\ scene.ducts = {}

\* C26: in part_003, after clampGlobals(p) returned, topClearance lies within
\* [max(1, corridorHeight - ceilingHeight), corridorHeight]
TopClearanceAboveCeiling3 ==
    lastOp.clamped =>
        /\ p.topClearance >= Max(1, p.corridorHeight - p.ceilingHeight)
        /\ p.topClearance <= p.corridorHeight

\* C27: an edit and its recomputation are one step: every step that writes
\* the parameters completes the clamp-and-rebuild pass of that edit, so that
\* no other edit and no other rebuild can come between the two, with chat
\* requests in flight or not
EditAndRebuildAtomic ==
    [][p' # p => (lastOp'.rebuilt /\ ~lastOp'.threw /\
                  scene' = buildSceneRebuilder(p', scene.children))]_vars

\* C28: after any number of rebuilds the scene holds exactly one generation
\* of generated objects, one rack, one shell, one duct group and one pipe
\* group, all added by the most recent rebuild
OneGeneration ==
    lastOp.rebuilt =>
        /\ \A o \in scene.children : o.age = 0
        /\ \A k \in Kinds :
              Cardinality({o \in scene.children : o.kind = k}) = 1
        /\ Cardinality(scene.children) = 4

\* a rebuild that was not the first one: the tier-count handler ran after
\* setup and left four objects
OneGenerationWitness ==
    /\ lastOp.rebuilt /\ lastOp.resized /\ ~lastOp.clamped
    /\ p.tierCount = 3
    /\ Cardinality(scene.children) = 4

\* C29: the pipe lists of distinct tiers are never aliased: a step that
\* changes the pipe count of tier t, or the diameter of one of its pipes,
\* leaves the pipe list of every other tier and all its entries unchanged
PipeListsNotAliased ==
    [][\A t \in DOMAIN p.pipesPerTier :
          (PipeCountEditId(t) \/ \E j \in PipeCtrls(t) : PipeDiamEditId(t, j)) =>
              \A k \in DOMAIN p.pipesPerTier \ {t} :
                  p'.pipesPerTier[k] = p.pipesPerTier[k]]_vars

\* tierCount was raised to 4 and the pipes of tier 3 were edited: tier 3
\* holds two pipes, the first 24 in wide, while tier 4, which can have been
\* created in the same resize, holds the default list
PipeListsNotAliasedWitness ==
    /\ lastOp.rebuilt
    /\ p.tierCount = 4
    /\ p.pipeEnabled[3]
    /\ Len(p.pipesPerTier[3]) = 2 /\ p.pipesPerTier[3][1].diam = In(24)
    /\ p.pipesPerTier[4] = <<DefaultPipe>>
    /\ p.listId[3] # p.listId[4]

\* C30: in part_003 every controller handler ends by running the rebuild
\* function setupGUI returns: no handler aborts before rebuilding, and once a
\* controller change has been handled the scene geometry is the one built
\* from the current parameters
HandlersEndInRebuild3 ==
    /\ ~lastOp.threw
    /\ scene = sceneOf(rebuildScene(p), scene.children)

====
